---- MODULE Spec2Model ----
(***************************************************************************)
(* Model of synthetic_data_kit/utils/config.py: configuration loading,     *)
(* the section accessors and the recursive dictionary merge.               *)
(*                                                                         *)
(* Python values are tagged records (kind = "str", "int", "float", "bool", *)
(* "none", "dict").  A dict used by the accessors carries its items in the *)
(* field m; the dicts handled by merge_configs live in a heap of objects   *)
(* so that object identity (aliasing) is part of the state.                *)
(***************************************************************************)
EXTENDS Integers, Sequences, FiniteSets, TLC

VARIABLES fs, config, heap, ret

vars == <<fs, config, heap, ret>>

----------------------------------------------------------------------------
(* Python values *)

StrV(s) == [kind |-> "str", s |-> s]
IntV(n) == [kind |-> "int", n |-> n]
FloatV(s) == [kind |-> "float", s |-> s]
BoolV(b) == [kind |-> "bool", b |-> b]
NoneV == [kind |-> "none"]
EmptyMap == [k \in {} |-> NoneV]
DictV(m) == [kind |-> "dict", m |-> m]

\* isinstance(v, dict) and isinstance(v, str)
IsDict(v) == v.kind = "dict"
IsStr(v) == v.kind = "str"

\* truth value of an Optional[str] argument: None and '' are false
Truthy(v) == IsStr(v) /\ v.s # ""

\* d.get(k, default) on the items of a dict
DictGet(m, k, default) == IF k \in DOMAIN m THEN m[k] ELSE default

\* outcome of a call: a returned value or a raised exception
Return(v) == [err |-> "none", val |-> v]
Raise(e) == [err |-> e, val |-> NoneV]

\* the exception classes the code raises, under the names of the design
NotFoundError == "FileNotFoundError"
InvalidArgument == "ValueError"

----------------------------------------------------------------------------
(* get_path_config *)

\* InputBranch without the fall-back to the 'default' entry
InputBranchNoDefault(paths, file_type) ==
    LET input_config == DictGet(paths, "input", StrV("data/input"))
    IN  IF IsStr(input_config) THEN Return(input_config)
        ELSE IF IsDict(input_config)
                /\ Truthy(file_type) /\ file_type.s \in DOMAIN input_config.m
        THEN Return(input_config.m[file_type.s])
        ELSE Return(StrV("data/input"))

\* the 'input' branch, given the paths mapping
InputBranch(paths, file_type) ==
    LET input_config == DictGet(paths, "input", StrV("data/input"))
    IN  IF IsStr(input_config) THEN Return(input_config)
        ELSE IF IsDict(input_config)
        THEN IF Truthy(file_type) /\ file_type.s \in DOMAIN input_config.m
             THEN Return(input_config.m[file_type.s])
             ELSE Return(DictGet(input_config.m, "default", StrV("data/input")))
        ELSE Return(StrV("data/input"))

\* OutputBranch that looks up 'default' before the file type
OutputBranchDefaultFirst(paths, file_type) ==
    LET output_paths == DictGet(paths, "output", DictV(EmptyMap))
    IN  IF ~IsDict(output_paths)
        THEN IF Truthy(file_type) THEN Raise("TypeError") ELSE Raise("AttributeError")
        ELSE IF "default" \in DOMAIN output_paths.m
        THEN Return(output_paths.m["default"])
        ELSE IF Truthy(file_type) /\ file_type.s \in DOMAIN output_paths.m
        THEN Return(output_paths.m[file_type.s])
        ELSE Return(StrV("data/output"))

\* the 'output' branch, given the paths mapping; a None entry has neither
\* a membership test nor a get method
OutputBranch(paths, file_type) ==
    LET output_paths == DictGet(paths, "output", DictV(EmptyMap))
    IN  IF ~IsDict(output_paths)
        THEN IF Truthy(file_type) THEN Raise("TypeError") ELSE Raise("AttributeError")
        ELSE IF Truthy(file_type) /\ file_type.s \in DOMAIN output_paths.m
        THEN Return(output_paths.m[file_type.s])
        ELSE Return(DictGet(output_paths.m, "default", StrV("data/output")))

\* get_path_config that treats every path type but 'input' as 'output'
get_path_config_lenient(cfg, path_type, file_type) ==
    LET paths == DictGet(cfg, "paths", DictV(EmptyMap))
    IN  IF ~IsDict(paths) THEN Raise("AttributeError")
        ELSE IF path_type = "input" THEN InputBranch(paths.m, file_type)
        ELSE OutputBranch(paths.m, file_type)

get_path_config(cfg, path_type, file_type) ==
    LET paths == DictGet(cfg, "paths", DictV(EmptyMap))
    IN  IF path_type = "input"
        THEN IF IsDict(paths) THEN InputBranch(paths.m, file_type)
             ELSE Raise("AttributeError")
        ELSE IF path_type = "output"
        THEN IF IsDict(paths) THEN OutputBranch(paths.m, file_type)
             ELSE Raise("AttributeError")
        ELSE Raise("ValueError")

----------------------------------------------------------------------------
(* get_llm_provider *)

\* the condition of the WARNING print
ProviderMismatch(cfg, provider) ==
    /\ provider # StrV("api-endpoint")
    /\ "llm" \in DOMAIN cfg
    /\ "provider" \in DOMAIN cfg["llm"].m
    /\ cfg["llm"].m["provider"] = StrV("api-endpoint")

\* get_llm_provider that reads the provider from the top level of the document
get_llm_provider_toplevel(cfg) ==
    LET llm_config == DictGet(cfg, "llm", DictV(EmptyMap))
    IN  IF ~IsDict(llm_config) THEN Raise("AttributeError") @@ [warned |-> FALSE]
        ELSE LET provider == DictGet(cfg, "provider", StrV("vllm"))
             IN  Return(provider) @@ [warned |-> ProviderMismatch(cfg, provider)]

get_llm_provider(cfg) ==
    LET llm_config == DictGet(cfg, "llm", DictV(EmptyMap))
    IN  IF ~IsDict(llm_config) THEN Raise("AttributeError") @@ [warned |-> FALSE]
        ELSE LET provider == DictGet(llm_config.m, "provider", StrV("vllm"))
             IN  Return(provider) @@ [warned |-> ProviderMismatch(cfg, provider)]

----------------------------------------------------------------------------
(* section getters *)

VllmDefault ==
    [api_base |-> StrV("http://localhost:8000/v1"), port |-> IntV(8000),
     model |-> StrV("meta-llama/Llama-3.3-70B-Instruct"),
     max_retries |-> IntV(3), retry_delay |-> FloatV("1.0")]

OpenaiDefault ==
    [api_base |-> NoneV, api_key |-> NoneV, model |-> StrV("gpt-4o"),
     max_retries |-> IntV(3), retry_delay |-> FloatV("1.0")]

GenerationDefault ==
    [temperature |-> FloatV("0.7"), top_p |-> FloatV("0.95"),
     chunk_size |-> IntV(4000), overlap |-> IntV(200), max_tokens |-> IntV(4096)]

CurateDefault ==
    [threshold |-> FloatV("7.0"), batch_size |-> IntV(8), temperature |-> FloatV("0.1")]

FormatDefault ==
    [default |-> StrV("jsonl"), include_metadata |-> BoolV(TRUE), pretty_json |-> BoolV(TRUE)]

\* get_vllm_config that fills the missing fields of a stored mapping from the default
get_vllm_config_filled(cfg) ==
    LET stored == DictGet(cfg, "vllm", DictV(VllmDefault))
    IN  IF IsDict(stored) THEN Return(DictV(stored.m @@ VllmDefault)) ELSE Return(stored)

get_vllm_config(cfg) == Return(DictGet(cfg, "vllm", DictV(VllmDefault)))
get_openai_config(cfg) == Return(DictGet(cfg, "api-endpoint", DictV(OpenaiDefault)))
get_generation_config(cfg) == Return(DictGet(cfg, "generation", DictV(GenerationDefault)))
get_curate_config(cfg) == Return(DictGet(cfg, "curate", DictV(CurateDefault)))
get_format_config(cfg) == Return(DictGet(cfg, "format", DictV(FormatDefault)))

----------------------------------------------------------------------------
(* get_prompt *)

\* get_prompt that raises the lookup error of prompts[prompt_name]
get_prompt_keyerror(cfg, prompt_name) ==
    LET prompts == DictGet(cfg, "prompts", DictV(EmptyMap))
    IN  IF ~IsDict(prompts) THEN Raise("TypeError")
        ELSE IF prompt_name \notin DOMAIN prompts.m THEN Raise("KeyError")
        ELSE Return(prompts.m[prompt_name])

get_prompt(cfg, prompt_name) ==
    LET prompts == DictGet(cfg, "prompts", DictV(EmptyMap))
    IN  IF ~IsDict(prompts) THEN Raise("TypeError")
        ELSE IF prompt_name \notin DOMAIN prompts.m THEN Raise("ValueError")
        ELSE Return(prompts.m[prompt_name])

----------------------------------------------------------------------------
(* load_config *)

PACKAGE_CONFIG_PATH == "synthetic_data_kit/config.yaml"
ORIGINAL_CONFIG_PATH == "configs/config.yaml"
DEFAULT_CONFIG_PATH == PACKAGE_CONFIG_PATH

\* os.path.exists: true of files and of directories
PathExists(files, path) == files[path] # "absent"

\* the for/else loop: the first existing candidate, else the default
RECURSIVE FirstExisting(_, _)
FirstExisting(files, candidates) ==
    IF candidates = << >> THEN DEFAULT_CONFIG_PATH
    ELSE IF PathExists(files, Head(candidates)) THEN Head(candidates)
    ELSE FirstExisting(files, Tail(candidates))

\* ResolvePath that falls back to the candidates when the given path is missing
ResolvePathFallback(files, config_path) ==
    IF config_path = NoneV \/ ~PathExists(files, config_path.s)
    THEN FirstExisting(files, <<PACKAGE_CONFIG_PATH, ORIGINAL_CONFIG_PATH>>)
    ELSE config_path.s

ResolvePath(files, config_path) ==
    IF config_path = NoneV
    THEN FirstExisting(files, <<PACKAGE_CONFIG_PATH, ORIGINAL_CONFIG_PATH>>)
    ELSE config_path.s

\* the documents the modelled files hold
DocWithProvider == ("llm" :> DictV("provider" :> StrV("api-endpoint")))
DocPlain == ("paths" :> DictV("input" :> StrV("data/pdf")))

\* yaml.safe_load of an opened file: an empty file parses to None
SafeLoad(content) ==
    CASE content = "malformed" -> Raise("YAMLError")
      [] content = "empty" -> Return(NoneV)
      [] content = "doc_provider" -> Return(DictV(DocWithProvider))
      [] content = "doc_plain" -> Return(DictV(DocPlain))

\* the statements after the existence check: open, parse, debug print
OpenAndParse(files, path) ==
    IF files[path] = "dir"
    THEN Raise("IsADirectoryError") @@ [path |-> path, opened |-> << >>, log |-> <<"loading">>]
    ELSE LET parsed == SafeLoad(files[path])
             tail == [path |-> path, opened |-> <<path>>]
         IN  IF parsed.err # "none" THEN parsed @@ tail @@ [log |-> <<"loading">>]
             ELSE IF ~IsDict(parsed.val)
             THEN Raise("TypeError") @@ tail @@ [log |-> <<"loading">>]
             ELSE IF "llm" \in DOMAIN parsed.val.m
                     /\ "provider" \in DOMAIN parsed.val.m["llm"].m
             THEN parsed @@ tail @@ [log |-> <<"loading", "provider set">>]
             ELSE parsed @@ tail @@ [log |-> <<"loading", "provider not set">>]

load_config(files, config_path) ==
    LET path == ResolvePath(files, config_path)
    IN  IF ~PathExists(files, path)
        THEN Raise("FileNotFoundError") @@ [path |-> path, opened |-> << >>, log |-> << >>]
        ELSE OpenAndParse(files, path)

----------------------------------------------------------------------------
(* the documents and arguments the accessors are applied to *)

InPath(k) ==
    CASE k = "pdf" -> StrV("/a")
      [] k = "default" -> StrV("/b")
      [] OTHER -> StrV("/in/unnamed")

OutPath(k) ==
    CASE k = "pdf" -> StrV("/out/pdf")
      [] k = "default" -> StrV("/out/default")
      [] OTHER -> StrV("/out/unnamed")

FileTypeKeys == {"pdf", "default", ""}

InputEntries ==
    {StrV("/data/in"), StrV(""), NoneV, IntV(7)}
        \cup {DictV([k \in K |-> InPath(k)]) : K \in SUBSET FileTypeKeys}

OutputEntries ==
    {NoneV} \cup {DictV([k \in K |-> OutPath(k)]) : K \in SUBSET FileTypeKeys}

\* mappings with an optional entry under each of two keys
Optional2(k1, S1, k2, S2) ==
    {EmptyMap} \cup {k1 :> v1 : v1 \in S1} \cup {k2 :> v2 : v2 \in S2}
        \cup {(k1 :> v1) @@ (k2 :> v2) : v1 \in S1, v2 \in S2}

PathsSections ==
    {NoneV} \cup {DictV(m) : m \in Optional2("input", InputEntries, "output", OutputEntries)}

LlmSections ==
    {NoneV, DictV(EmptyMap), DictV("model" :> StrV("m")),
     DictV("provider" :> StrV("vllm")), DictV("provider" :> StrV("api-endpoint")),
     DictV("provider" :> StrV("ollama")), DictV("provider" :> NoneV)}

PromptNames == {"summary", "qa_generation"}

PromptsSections ==
    {NoneV} \cup {DictV([k \in K |-> StrV("prompt text")]) : K \in SUBSET PromptNames}

SectionKeys == {"vllm", "api-endpoint", "generation", "curate", "format"}

\* a stored section: partial (lacking fields of the default), empty, or null
StoredSections ==
    {DictV("model" :> StrV("my-model")), DictV("temperature" :> FloatV("0.2")),
     DictV(EmptyMap), NoneV}

ConfigDocs ==
    {EmptyMap}
        \cup {"paths" :> p : p \in PathsSections}
        \cup {"llm" :> l : l \in LlmSections}
        \cup {"prompts" :> p : p \in PromptsSections}
        \cup UNION {[K -> StoredSections] : K \in SUBSET SectionKeys}
        \cup {("paths" :> DictV("input" :> DictV([k \in {"pdf", "default"} |-> InPath(k)])))
                @@ ("llm" :> DictV("provider" :> StrV("api-endpoint")))
                @@ ("vllm" :> DictV("model" :> StrV("my-model")))
                @@ ("prompts" :> DictV("summary" :> StrV("prompt text")))}

PathTypeArgs == {"input", "output", "bogus", ""}
FileTypeArgs == {NoneV, StrV(""), StrV("pdf"), StrV("docx"), StrV("default")}
PromptNameArgs == PromptNames \cup {"missing"}

----------------------------------------------------------------------------
(* the accessors applied to a loaded document *)

NoFiles == [p \in {PACKAGE_CONFIG_PATH} |-> "absent"]

InitGet ==
    /\ config \in ConfigDocs
    /\ fs = NoFiles
    /\ heap = << >>
    /\ ret = [op |-> "none"]

Call_get_path_config ==
    \E path_type \in PathTypeArgs, file_type \in FileTypeArgs :
        /\ ret' = [op |-> "get_path_config", path_type |-> path_type, file_type |-> file_type]
                    @@ get_path_config(config, path_type, file_type)
        /\ UNCHANGED <<fs, config, heap>>

Call_get_llm_provider ==
    /\ ret' = [op |-> "get_llm_provider"] @@ get_llm_provider(config)
    /\ UNCHANGED <<fs, config, heap>>

Call_get_vllm_config ==
    /\ ret' = [op |-> "get_vllm_config"] @@ get_vllm_config(config)
    /\ UNCHANGED <<fs, config, heap>>

Call_get_openai_config ==
    /\ ret' = [op |-> "get_openai_config"] @@ get_openai_config(config)
    /\ UNCHANGED <<fs, config, heap>>

Call_get_generation_config ==
    /\ ret' = [op |-> "get_generation_config"] @@ get_generation_config(config)
    /\ UNCHANGED <<fs, config, heap>>

Call_get_curate_config ==
    /\ ret' = [op |-> "get_curate_config"] @@ get_curate_config(config)
    /\ UNCHANGED <<fs, config, heap>>

Call_get_format_config ==
    /\ ret' = [op |-> "get_format_config"] @@ get_format_config(config)
    /\ UNCHANGED <<fs, config, heap>>

Call_get_prompt ==
    \E prompt_name \in PromptNameArgs :
        /\ ret' = [op |-> "get_prompt", prompt_name |-> prompt_name]
                    @@ get_prompt(config, prompt_name)
        /\ UNCHANGED <<fs, config, heap>>

NextGet ==
    \/ Call_get_path_config
    \/ Call_get_llm_provider
    \/ Call_get_vllm_config
    \/ Call_get_openai_config
    \/ Call_get_generation_config
    \/ Call_get_curate_config
    \/ Call_get_format_config
    \/ Call_get_prompt

SpecGet == InitGet /\ [][NextGet]_vars

----------------------------------------------------------------------------
(* loading from a file system *)

UserPath == "my/config.yaml"
Paths == {PACKAGE_CONFIG_PATH, ORIGINAL_CONFIG_PATH, UserPath}
FileStates == {"absent", "dir", "malformed", "empty", "doc_provider", "doc_plain"}
ConfigPathArgs == {NoneV} \cup {StrV(p) : p \in Paths}

InitLoad ==
    /\ fs \in [Paths -> FileStates]
    /\ config = EmptyMap
    /\ heap = << >>
    /\ ret = [op |-> "none"]

Call_load_config ==
    \E config_path \in ConfigPathArgs :
        LET out == load_config(fs, config_path)
        IN  /\ ret' = [op |-> "load_config", config_path |-> config_path] @@ out
            /\ config' = IF out.err = "none" THEN out.val.m ELSE config
            /\ UNCHANGED <<fs, heap>>

NextLoad == Call_load_config

SpecLoad == InitLoad /\ [][NextLoad]_vars

----------------------------------------------------------------------------
(* merge_configs *)

\* A dict object of the heap maps its keys to values; a value that is a
\* dict is a reference to another object of the heap.
RefV(a) == [kind |-> "dict", ref |-> a]

\* DictCopy that hands back base_config itself
DictAlias(h, base) == [heap |-> h, result |-> base]

\* base_config.copy(): a new object with the same items (shallow)
DictCopy(h, base) == [heap |-> Append(h, h[base]), result |-> Len(h) + 1]

\* SetItem that keeps the value of a key already present (setdefault)
SetDefault(h, obj, key, v) == [h EXCEPT ![obj] = @ @@ (key :> v)]

\* result[key] = v
SetItem(h, obj, key, v) == [h EXCEPT ![obj] = (key :> v) @@ @]

RECURSIVE merge_configs(_, _, _)
RECURSIVE MergeItems(_, _, _, _)

\* the for loop over the items of override that remain to be visited
MergeItems(h, result, override, keys) ==
    IF keys = {} THEN h
    ELSE LET key == CHOOSE k \in keys : TRUE
             value == h[override][key]
         IN  IF IsDict(value) /\ key \in DOMAIN h[result] /\ IsDict(h[result][key])
             THEN LET sub == merge_configs(h, h[result][key].ref, value.ref)
                  IN  MergeItems(SetItem(sub.heap, result, key, RefV(sub.result)),
                                 result, override, keys \ {key})
             ELSE MergeItems(SetItem(h, result, key, value),
                             result, override, keys \ {key})

merge_configs(h, base_config, override_config) ==
    LET copy == DictCopy(h, base_config)
    IN  [heap |-> MergeItems(copy.heap, copy.result, override_config,
                             DOMAIN h[override_config]),
         result |-> copy.result]

----------------------------------------------------------------------------
(* merging two documents *)

NumObjs == 4
MaxItems == 4

MergeKeys == {"a", "b"}
Scalars == {IntV(1), IntV(2)}

\* the objects that can sit at address n: items are scalars or references
\* to objects built before (no cycles); no object beyond NumObjs
ObjsAt(n) ==
    IF n > NumObjs THEN {EmptyMap}
    ELSE UNION {[K -> Scalars \cup {RefV(j) : j \in 1..(n - 1)}] : K \in SUBSET MergeKeys}

RECURSIVE CountItems(_)
CountItems(h) ==
    IF h = << >> THEN 0 ELSE Cardinality(DOMAIN Head(h)) + CountItems(Tail(h))

\* the two documents handed to merge_configs are the last two objects;
\* either may hold the other objects, and the last may hold the one before
Roots == {NumObjs - 1, NumObjs}

\* a heap of NumObjs objects holding at most MaxItems items in total
InitMerge ==
    /\ \E o1 \in ObjsAt(1), o2 \in ObjsAt(2), o3 \in ObjsAt(3),
          o4 \in ObjsAt(4), o5 \in ObjsAt(5) :
          /\ CountItems(<<o1, o2, o3, o4, o5>>) <= MaxItems
          /\ heap = SubSeq(<<o1, o2, o3, o4, o5>>, 1, NumObjs)
    /\ fs = NoFiles
    /\ config = EmptyMap
    /\ ret = [op |-> "none"]

Call_merge_configs ==
    /\ ret.op = "none"
    /\ \E base \in Roots, override \in Roots :
        LET out == merge_configs(heap, base, override)
        IN  /\ heap' = out.heap
            /\ ret' = [op |-> "merge_configs", base |-> base, override |-> override,
                       result |-> out.result, heap_before |-> heap]
    /\ UNCHANGED <<fs, config>>

NextMerge == Call_merge_configs

SpecMerge == InitMerge /\ [][NextMerge]_vars

----------------------------------------------------------------------------
(* properties of merge_configs (SpecMerge) *)

Merged == ret.op = "merge_configs"

\* the value held under a heap value: references followed to the items
RECURSIVE Content(_, _)
Content(h, v) ==
    IF IsDict(v)
    THEN [kind |-> "dict", m |-> [k \in DOMAIN h[v.ref] |-> Content(h, h[v.ref][k])]]
    ELSE v

\* object r of heap hr is the merge of objects b and o of heap hi, as the
\* design states it: union of the keys; base's value for a key of base only;
\* the merge of the two values when both are mappings; else override's value
RECURSIVE MergeOf(_, _, _, _, _)
MergeOf(hr, r, hi, b, o) ==
    /\ DOMAIN hr[r] = DOMAIN hi[b] \cup DOMAIN hi[o]
    /\ \A k \in DOMAIN hr[r] :
         IF k \notin DOMAIN hi[o]
         THEN Content(hr, hr[r][k]) = Content(hi, hi[b][k])
         ELSE IF k \in DOMAIN hi[b] /\ IsDict(hi[b][k]) /\ IsDict(hi[o][k])
         THEN IsDict(hr[r][k]) /\ MergeOf(hr, hr[r][k].ref, hi, hi[b][k].ref, hi[o][k].ref)
         ELSE Content(hr, hr[r][k]) = Content(hi, hi[o][k])

\* C1: the document merge_configs returns has the union of the keys of base
\* and override; a key of base only keeps base's value, a key under which
\* both hold mappings holds their recursive merge, and every other key of
\* override holds override's value.
C1_MergeResult ==
    Merged => MergeOf(heap, ret.result, ret.heap_before, ret.base, ret.override)

\* a merge that recursed into a key held as a mapping by both documents,
\* where the nested mappings disagree on a scalar and base's has a key that
\* override's lacks
C1_Witness ==
    /\ Merged
    /\ \E k \in MergeKeys :
         /\ k \in DOMAIN ret.heap_before[ret.base]
         /\ k \in DOMAIN ret.heap_before[ret.override]
         /\ IsDict(ret.heap_before[ret.base][k])
         /\ IsDict(ret.heap_before[ret.override][k])
         /\ LET nb == ret.heap_before[ret.heap_before[ret.base][k].ref]
                no == ret.heap_before[ret.heap_before[ret.override][k].ref]
            IN  /\ \E j \in DOMAIN nb \cap DOMAIN no :
                     ~IsDict(nb[j]) /\ ~IsDict(no[j]) /\ nb[j] # no[j]
                /\ DOMAIN nb \ DOMAIN no # {}

\* C2: merge_configs leaves every object that existed before the call, and
\* so base, override and all their nested mappings, with the items it had.
C2_InputsUnchanged ==
    Merged => \A a \in DOMAIN ret.heap_before : heap[a] = ret.heap_before[a]

\* a merge whose base holds one nested mapping under a key override lacks
\* and another under a key where override holds a mapping with other items
C2_Witness ==
    /\ Merged
    /\ \E k1, k2 \in DOMAIN ret.heap_before[ret.base] :
         /\ IsDict(ret.heap_before[ret.base][k1])
         /\ k1 \notin DOMAIN ret.heap_before[ret.override]
         /\ IsDict(ret.heap_before[ret.base][k2])
         /\ k2 \in DOMAIN ret.heap_before[ret.override]
         /\ IsDict(ret.heap_before[ret.override][k2])
         /\ Content(ret.heap_before, ret.heap_before[ret.override][k2])
              # Content(ret.heap_before, ret.heap_before[ret.base][k2])

\* the objects reachable from object a, a included
RECURSIVE Reach(_, _)
Reach(h, a) ==
    {a} \cup UNION {Reach(h, h[a][k].ref) : k \in {j \in DOMAIN h[a] : IsDict(h[a][j])}}

\* C10: the document merge_configs returns shares no mapping with base or
\* with override: no object reachable from the result is reachable from them.
C10_ResultIndependent ==
    Merged =>
        Reach(heap, ret.result)
            \cap (Reach(ret.heap_before, ret.base) \cup Reach(ret.heap_before, ret.override))
        = {}

----------------------------------------------------------------------------
(* properties of get_path_config (SpecGet) *)

\* the paths section is absent or a mapping
PathsUsable == "paths" \notin DOMAIN config \/ IsDict(config["paths"])

\* the entry of the paths section under key
PathsEntry(key) == config["paths"].m[key]

HasPathsEntry(key) ==
    /\ "paths" \in DOMAIN config
    /\ IsDict(config["paths"])
    /\ key \in DOMAIN config["paths"].m

\* the lookup the design describes in a mapping m: the entry of the file
\* type when keyed says the file type selects one, else 'default', else
\* the literal
Lookup(m, file_type, keyed, literal) ==
    IF keyed /\ file_type.s \in DOMAIN m THEN m[file_type.s]
    ELSE IF "default" \in DOMAIN m THEN m["default"]
    ELSE StrV(literal)

InputCall ==
    /\ ret.op = "get_path_config" /\ ret.path_type = "input"
    /\ PathsUsable
    /\ HasPathsEntry("input") => PathsEntry("input").kind \in {"str", "dict"}

InputResult(keyed) ==
    IF ~HasPathsEntry("input") THEN StrV("data/input")
    ELSE IF IsStr(PathsEntry("input")) THEN PathsEntry("input")
    ELSE Lookup(PathsEntry("input").m, ret.file_type, keyed, "data/input")

\* C3 as stated: a string paths.input is returned as it is; a mapping gives
\* the entry of file_type whenever that key is present, else 'default', else
\* 'data/input'; an absent entry gives 'data/input'.
C3_AsStated ==
    InputCall => ret.err = "none" /\ ret.val = InputResult(ret.file_type # NoneV)

\* C3 amended: as stated, but the entry of file_type is taken only for a
\* non-empty file_type; the empty string counts as no file type.
C3_InputPath ==
    InputCall =>
        /\ ret.err = "none"
        /\ ret.val = InputResult(ret.file_type # NoneV /\ ret.file_type # StrV(""))

\* {'pdf': '/a', 'default': '/b'} asked for 'docx' gives '/b'
C3_Witness ==
    /\ InputCall
    /\ HasPathsEntry("input") /\ IsDict(PathsEntry("input"))
    /\ DOMAIN PathsEntry("input").m = {"pdf", "default"}
    /\ ret.file_type = StrV("docx")
    /\ ret.val = StrV("/b")

OutputCall ==
    /\ ret.op = "get_path_config" /\ ret.path_type = "output"
    /\ PathsUsable
    /\ HasPathsEntry("output") => IsDict(PathsEntry("output"))

OutputResult(keyed) ==
    Lookup(IF HasPathsEntry("output") THEN PathsEntry("output").m ELSE EmptyMap,
           ret.file_type, keyed, "data/output")

\* C4 as stated: with paths.output a mapping or absent, the result is the
\* entry of file_type whenever that key is present, else 'default', else
\* 'data/output'.
C4_AsStated ==
    OutputCall => ret.err = "none" /\ ret.val = OutputResult(ret.file_type # NoneV)

\* C4 amended: as stated, but the entry of file_type is taken only for a
\* non-empty file_type; the empty string counts as no file type.
C4_OutputPath ==
    OutputCall =>
        /\ ret.err = "none"
        /\ ret.val = OutputResult(ret.file_type # NoneV /\ ret.file_type # StrV(""))

\* a mapping with both 'pdf' and 'default' asked for 'pdf' gives the 'pdf' entry
C4_Witness ==
    /\ OutputCall
    /\ HasPathsEntry("output")
    /\ {"pdf", "default"} \subseteq DOMAIN PathsEntry("output").m
    /\ ret.file_type = StrV("pdf")
    /\ ret.val = PathsEntry("output").m["pdf"]
    /\ ret.val # PathsEntry("output").m["default"]

\* C5: a path_type other than 'input' and 'output' fails with
\* InvalidArgument and returns no path, whatever paths holds and whatever
\* file_type is.
C5_UnknownPathType ==
    (ret.op = "get_path_config" /\ ret.path_type \notin {"input", "output"})
        => ret.err = InvalidArgument /\ ret.val = NoneV

\* an unknown path type on a document whose paths section holds entries
C5_Witness ==
    /\ ret.op = "get_path_config" /\ ret.path_type = "bogus"
    /\ HasPathsEntry("input") /\ HasPathsEntry("output")
    /\ ret.file_type = StrV("pdf")
    /\ ret.err = InvalidArgument

----------------------------------------------------------------------------
(* properties of load_config (SpecLoad) *)

Loaded == ret.op = "load_config"

\* the source the design resolves: the given path alone, else the package
\* path if it exists, else the legacy path if it exists, else the package path
ExpectedPath ==
    IF ret.config_path # NoneV THEN ret.config_path.s
    ELSE IF fs[PACKAGE_CONFIG_PATH] # "absent" THEN PACKAGE_CONFIG_PATH
    ELSE IF fs[ORIGINAL_CONFIG_PATH] # "absent" THEN ORIGINAL_CONFIG_PATH
    ELSE PACKAGE_CONFIG_PATH

\* C6: load_config resolves its source in that order, fails with
\* NotFoundError exactly when the resolved path does not exist, and then
\* opens no file; no path but the resolved one is ever opened.
C6_LoadResolution ==
    Loaded =>
        /\ ret.path = ExpectedPath
        /\ (ret.err = NotFoundError) <=> (fs[ExpectedPath] = "absent")
        /\ ret.err = NotFoundError => ret.opened = << >>
        /\ \A i \in DOMAIN ret.opened : ret.opened[i] = ExpectedPath

\* a missing explicit path fails although both candidates hold documents
C6_Witness ==
    /\ Loaded
    /\ ret.config_path = StrV(UserPath)
    /\ fs[UserPath] = "absent"
    /\ fs[PACKAGE_CONFIG_PATH] = "doc_plain"
    /\ fs[ORIGINAL_CONFIG_PATH] = "doc_provider"
    /\ ret.err = NotFoundError

----------------------------------------------------------------------------
(* properties of the section getters, get_prompt and get_llm_provider (SpecGet) *)

\* the section each getter reads
SectionOf(op) ==
    CASE op = "get_vllm_config" -> "vllm"
      [] op = "get_openai_config" -> "api-endpoint"
      [] op = "get_generation_config" -> "generation"
      [] op = "get_curate_config" -> "curate"
      [] op = "get_format_config" -> "format"

\* the table of defaults of the design
DocumentedDefault(section) ==
    CASE section = "vllm" ->
           [api_base |-> StrV("http://localhost:8000/v1"), port |-> IntV(8000),
            model |-> StrV("meta-llama/Llama-3.3-70B-Instruct"),
            max_retries |-> IntV(3), retry_delay |-> FloatV("1.0")]
      [] section = "api-endpoint" ->
           [api_base |-> NoneV, api_key |-> NoneV, model |-> StrV("gpt-4o"),
            max_retries |-> IntV(3), retry_delay |-> FloatV("1.0")]
      [] section = "generation" ->
           [temperature |-> FloatV("0.7"), top_p |-> FloatV("0.95"),
            chunk_size |-> IntV(4000), overlap |-> IntV(200),
            max_tokens |-> IntV(4096)]
      [] section = "curate" ->
           [threshold |-> FloatV("7.0"), batch_size |-> IntV(8),
            temperature |-> FloatV("0.1")]
      [] section = "format" ->
           [default |-> StrV("jsonl"), include_metadata |-> BoolV(TRUE),
            pretty_json |-> BoolV(TRUE)]

SectionCall ==
    ret.op \in {"get_vllm_config", "get_openai_config", "get_generation_config",
                "get_curate_config", "get_format_config"}

\* C7: a section getter returns the stored section as it is when its key is
\* present, and the documented default mapping when the key is absent.
C7_SectionGetters ==
    SectionCall =>
        /\ ret.err = "none"
        /\ ret.val = IF SectionOf(ret.op) \in DOMAIN config
                     THEN config[SectionOf(ret.op)]
                     ELSE DictV(DocumentedDefault(SectionOf(ret.op)))

\* get_vllm_config on a stored mapping that lacks fields of the default
C7_Witness ==
    /\ ret.op = "get_vllm_config"
    /\ "vllm" \in DOMAIN config
    /\ IsDict(config["vllm"])
    /\ DOMAIN config["vllm"].m = {"model"}
    /\ ret.val = config["vllm"]

PromptCall ==
    /\ ret.op = "get_prompt"
    /\ "prompts" \in DOMAIN config => IsDict(config["prompts"])

PromptPresent ==
    "prompts" \in DOMAIN config /\ ret.prompt_name \in DOMAIN config["prompts"].m

ProviderCall ==
    /\ ret.op = "get_llm_provider"
    /\ "llm" \in DOMAIN config => IsDict(config["llm"])

ProviderStored == "llm" \in DOMAIN config /\ "provider" \in DOMAIN config["llm"].m

\* C9: get_llm_provider returns the stored llm.provider when there is one
\* and 'vllm' otherwise, and never reaches its consistency warning.
C9_Provider ==
    ProviderCall =>
        /\ ret.err = "none"
        /\ ret.val = IF ProviderStored THEN config["llm"].m["provider"] ELSE StrV("vllm")
        /\ ~ret.warned

\* a stored 'api-endpoint' provider is returned
C9_Witness ==
    /\ ProviderCall
    /\ ProviderStored
    /\ config["llm"].m["provider"] = StrV("api-endpoint")
    /\ ret.val = StrV("api-endpoint")

====
